---- MODULE Spec2Model ----
(***************************************************************************)
(* Model of createDebouncedFunction (debounce-lite): the timing state      *)
(* machine of one wrapper instance, its waiters, its timer on the host's   *)
(* event loop and the settlement continuations of its invocations.         *)
(*                                                                         *)
(* Time is a discrete clock (Date.now()).  The host is modelled as the     *)
(* test-suite's fake timers model it: a timer fires at its due time, and a *)
(* due timer runs before any other task of that instant.  Microtasks (the  *)
(* continuation attached to a synchronous result) run before the clock     *)
(* advances and before the next timer; after a timer callback they run     *)
(* before any user code.                                                   *)
(***************************************************************************)
EXTENDS Integers, Sequences, FiniteSets, TLC

\* ---------------------------------------------------------------- bounds
MaxCalls == 2
MaxTime == 3

\* ------------------------------------------------------------- constants
null == 0
Infinity == 1000000
ThisCtx == 1

Args == {1, 2}
NoSignal == "none"
Signals == {"s0", "s1"}
Outcomes == {"value", "throw", "promise"}
Strategies == {"extend", "fixedDeadline"}
WaitOptions == {-1, 0, 1, 2}
MaxWaitOptions == {Infinity, 0, 1, 2}

Max(a, b) == IF a >= b THEN a ELSE b
Min(a, b) == IF a <= b THEN a ELSE b

VARIABLES
  options,          \* the DebounceOptions given to createDebouncedFunction
  fn,               \* the target: the outcomes an invocation of it can have
  callSignals,      \* the callers: the per-call signals they pass (or none)
  now,              \* Date.now()
  aborted,          \* the AbortSignals that have fired
  listeners,        \* per signal, the calls whose onAbort listener is attached
  hostTimers,       \* timers armed on the host's event loop: [id, at]
  inflight,         \* continuations Promise.resolve(out).then(...) not yet run
  inTimerTask,      \* the running task is a timer callback (microtasks first)
  timerId,
  firstCallTime,
  lastInvokeTime,
  pendingArgs,
  pendingThis,
  pendingResolves,
  pendingRejects,
  fixedDeadline,
  calls,            \* history: one record per call of the wrapper
  lastCall,         \* history: time and arguments of the most recent call
  ninvocations,     \* history: number of invocations of the target so far
  lastInvoke,       \* history: the most recent invocation of the target
  sinceBurst,       \* history: the current burst (calls spaced closer than wait)
  cycle,            \* history: the current cycle (first call .. trailing invoke/cancel)
  settlements,      \* history: per call, every resolve/reject made on its waiter
  flushResult       \* history: what the last flush() returned

vars == <<options, fn, callSignals, now, aborted, listeners, hostTimers, inflight, inTimerTask,
          timerId, firstCallTime, lastInvokeTime, pendingArgs, pendingThis,
          pendingResolves, pendingRejects, fixedDeadline,
          calls, lastCall, ninvocations, lastInvoke, sinceBurst, cycle,
          settlements, flushResult>>

\* ------------------------------------------------- construction (363-368)
wait == Max(0, options.wait)
leading == options.leading
trailing == options.trailing
strategy == options.strategy
hasMaxWait == options.maxWait # Infinity
maxWait == IF hasMaxWait THEN Max(0, options.maxWait) ELSE Infinity

\* ------------------------------------------- the closure's state as a value
\* thrown/out are the control-flow result of the last invoke.
Cur ==
  [ listeners |-> listeners, hostTimers |-> hostTimers, inflight |-> inflight,
    timerId |-> timerId, firstCallTime |-> firstCallTime,
    lastInvokeTime |-> lastInvokeTime, pendingArgs |-> pendingArgs,
    pendingThis |-> pendingThis, pendingResolves |-> pendingResolves,
    pendingRejects |-> pendingRejects, fixedDeadline |-> fixedDeadline,
    ncalls |-> Len(calls), ninvocations |-> ninvocations,
    lastInvoke |-> lastInvoke, sinceBurst |-> sinceBurst, cycle |-> cycle,
    settlements |-> settlements,
    thrown |-> FALSE, out |-> [kind |-> "undefined", inv |-> 0] ]

Assign(s) ==
  /\ listeners' = s.listeners
  /\ hostTimers' = s.hostTimers
  /\ inflight' = s.inflight
  /\ timerId' = s.timerId
  /\ firstCallTime' = s.firstCallTime
  /\ lastInvokeTime' = s.lastInvokeTime
  /\ pendingArgs' = s.pendingArgs
  /\ pendingThis' = s.pendingThis
  /\ pendingResolves' = s.pendingResolves
  /\ pendingRejects' = s.pendingRejects
  /\ fixedDeadline' = s.fixedDeadline
  /\ ninvocations' = s.ninvocations
  /\ lastInvoke' = s.lastInvoke
  /\ sinceBurst' = s.sinceBurst
  /\ cycle' = s.cycle
  /\ settlements' = s.settlements

\* history record of a run of calls: its number of calls, the time of its
\* first call, the invocations made since, whether flush()/cancel() acted, and
\* whether it is over (trailing invocation, cancel, or a leading invocation
\* after which nothing is owed)
NoRun == [calls |-> 0, start |-> 0, invoked |-> 0,
          flushed |-> FALSE, canceled |-> FALSE, ended |-> FALSE]
NewRun(t) == [NoRun EXCEPT !.calls = 1, !.start = t]

\* ------------------------------------------------------------ host timers
FreshTimerId(timers) ==
  CHOOSE i \in 1..(Cardinality(timers) + 1) : \A t \in timers : t.id # i

setTimeout(s, at) ==
  LET id == FreshTimerId(s.hostTimers) IN
  [s EXCEPT !.hostTimers = @ \cup {[id |-> id, at |-> at]}, !.timerId = id]

clearTimeout(s, id) ==
  [s EXCEPT !.hostTimers = {t \in @ : t.id # id}]

Due == \E t \in hostTimers : t.at <= now
MicroPending == \E i \in 1..Len(inflight) : inflight[i].micro
UserTurn == ~Due /\ ~inTimerTask

\* ------------------------------------------------------------- clearTimer
\* clearTimer that forgets the handle without cancelling the host's timer
clearTimer_forgetsHandle(s) ==
  [s EXCEPT !.timerId = null]

clearTimer(s) ==
  IF s.timerId # null
  THEN [clearTimeout(s, s.timerId) EXCEPT !.timerId = null]
  ELSE s

\* -------------------------------------------------------------- settleAll
\* a settlement records the invocation it carries the outcome of (inv) and
\* the number of calls made when that invocation began (upto); a continuation
\* in flight also records the waiters registered when its invocation began.
RECURSIVE SettleEach(_, _, _)
SettleEach(st, list, rec) ==
  IF list = <<>> THEN st
  ELSE SettleEach([st EXCEPT ![Head(list)] = Append(@, rec)], Tail(list), rec)

settleAll(s, success, payload) ==
  LET resolves == s.pendingResolves
      rejects == s.pendingRejects
      cleared == [s EXCEPT !.pendingResolves = <<>>, !.pendingRejects = <<>>]
  IN IF success
     THEN [cleared EXCEPT !.settlements =
             SettleEach(@, resolves, [kind |-> "resolve", why |-> payload.why,
                                      inv |-> payload.inv, upto |-> payload.upto])]
     ELSE [cleared EXCEPT !.settlements =
             SettleEach(@, rejects, [kind |-> "reject", why |-> payload.why,
                                     inv |-> payload.inv, upto |-> payload.upto])]

\* ----------------------------------------------------------------- invoke
\* outcome is what fn does: return a value, throw, or return a promise.
invoke(s, t, via, outcome) ==
  LET s1 == clearTimer(s)
      args == s1.pendingArgs
      n == s1.ninvocations + 1
      s2 == [s1 EXCEPT !.pendingArgs = null, !.pendingThis = null,
                       !.lastInvokeTime = t,
                       !.ninvocations = n,
                       !.lastInvoke = [args |-> args, via |-> via, upto |-> s1.ncalls],
                       !.sinceBurst.invoked = @ + 1,
                       !.cycle.invoked = @ + 1,
                       !.cycle.ended = (@ \/ via # "leading" \/ outcome = "throw"
                                          \/ ~trailing)]
  IN IF outcome = "throw"
     THEN [settleAll(s2, FALSE, [why |-> "target", inv |-> n, upto |-> s1.ncalls])
             EXCEPT !.thrown = TRUE, !.out = [kind |-> "threw", inv |-> n]]
     ELSE [s2 EXCEPT !.inflight = Append(@, [inv |-> n, upto |-> s1.ncalls,
                                             waiters |-> s1.pendingResolves,
                                             micro |-> (outcome = "value")]),
                     !.thrown = FALSE,
                     !.out = [kind |-> outcome, inv |-> n]]

\* --------------------------------------------------------------- schedule
\* schedule that restarts the full wait under either strategy
schedule_alwaysFullWait(s, t, outcome) ==
  LET s1 == clearTimer(s)
      elapsedSinceFirst == t - s1.firstCallTime
      remainingByMax == IF hasMaxWait
                        THEN Max(0, maxWait - elapsedSinceFirst)
                        ELSE Infinity
      delay == Min(wait, remainingByMax)
  IN IF delay <= 0
     THEN invoke(s1, t, "sync", outcome)
     ELSE setTimeout(s1, t + delay)

\* schedule that does not cap the delay by the maxWait budget
schedule_ignoresMaxWait(s, t, outcome) ==
  LET s1 == clearTimer(s)
      remainingWait == IF strategy = "extend"
                       THEN wait
                       ELSE Max(0, s1.fixedDeadline - t)
  IN IF remainingWait <= 0
     THEN invoke(s1, t, "sync", outcome)
     ELSE setTimeout(s1, t + remainingWait)

\* schedule that arms the new timer without clearing the previous one
schedule_keepsOldTimer(s, t, outcome) ==
  LET remainingWait == IF strategy = "extend"
                       THEN wait
                       ELSE Max(0, s.fixedDeadline - t)
      elapsedSinceFirst == t - s.firstCallTime
      remainingByMax == IF hasMaxWait
                        THEN Max(0, maxWait - elapsedSinceFirst)
                        ELSE Infinity
      delay == Min(remainingWait, remainingByMax)
  IN IF delay <= 0
     THEN invoke(s, t, "sync", outcome)
     ELSE setTimeout(s, t + delay)

\* schedule that arms a timer even when no delay remains
schedule_armsZeroDelay(s, t, outcome) ==
  LET s1 == clearTimer(s)
      remainingWait == IF strategy = "extend"
                       THEN wait
                       ELSE Max(0, s1.fixedDeadline - t)
      elapsedSinceFirst == t - s1.firstCallTime
      remainingByMax == IF hasMaxWait
                        THEN Max(0, maxWait - elapsedSinceFirst)
                        ELSE Infinity
      delay == Min(remainingWait, remainingByMax)
  IN setTimeout(s1, t + Max(0, delay))

schedule(s, t, outcome) ==
  LET s1 == clearTimer(s)
      remainingWait == IF strategy = "extend"
                       THEN wait
                       ELSE Max(0, s1.fixedDeadline - t)
      elapsedSinceFirst == t - s1.firstCallTime
      remainingByMax == IF hasMaxWait
                        THEN Max(0, maxWait - elapsedSinceFirst)
                        ELSE Infinity
      delay == Min(remainingWait, remainingByMax)
  IN IF delay <= 0
     THEN invoke(s1, t, "sync", outcome)
     ELSE setTimeout(s1, t + delay)

\* ---------------------------------------------------------------- pending
pendingOf(s) == s.pendingArgs # null \/ s.timerId # null
pending == pendingArgs # null \/ timerId # null

\* ------------------------------------------------------------------- Init
AllOptions ==
  [ wait : WaitOptions, leading : BOOLEAN, trailing : BOOLEAN,
    maxWait : MaxWaitOptions, strategy : Strategies, signal : {NoSignal, "s0"} ]
AllFns == SUBSET Outcomes \ {{}}
AllCallSignals == {{NoSignal}, {NoSignal, "s1"}}

InitWith(opts, fns, sigs) ==
  /\ options \in opts
  /\ fn \in fns
  /\ callSignals \in sigs
  /\ now = 0
  /\ aborted = {}
  /\ listeners = [sg \in Signals |-> <<>>]
  /\ hostTimers = {}
  /\ inflight = <<>>
  /\ inTimerTask = FALSE
  /\ timerId = null
  /\ firstCallTime = 0
  /\ lastInvokeTime = 0
  /\ pendingArgs = null
  /\ pendingThis = null
  /\ pendingResolves = <<>>
  /\ pendingRejects = <<>>
  /\ fixedDeadline = 0
  /\ calls = <<>>
  /\ lastCall = [at |-> 0, args |-> null]
  /\ ninvocations = 0
  /\ lastInvoke = [args |-> null, via |-> "none", upto |-> 0]
  /\ sinceBurst = NoRun
  /\ cycle = NoRun
  /\ settlements = [c \in 1..MaxCalls |-> <<>>]
  /\ flushResult = [kind |-> "none", inv |-> 0]

Init == InitWith(AllOptions, AllFns, AllCallSignals)

\* ---------------------------------------------------------- array helpers
indexOf(list, x) ==
  IF \E i \in 1..Len(list) : list[i] = x
  THEN CHOOSE i \in 1..Len(list) : list[i] = x /\ \A j \in 1..(i - 1) : list[j] # x
  ELSE 0

splice(list, idx) ==
  SubSeq(list, 1, idx - 1) \o SubSeq(list, idx + 1, Len(list))

reject(s, c, why) ==
  [s EXCEPT !.settlements[c] =
     Append(@, [kind |-> "reject", why |-> why, inv |-> 0, upto |-> 0])]

\* ---------------------------------------------------------------- onAbort
\* onAbort that rejects every waiter of the cycle instead of its own
onAbort_rejectsAll(s, c) ==
  LET idx == indexOf(s.pendingResolves, c)
      s1 == IF idx >= 1
            THEN settleAll(s, FALSE, [why |-> "AbortError", inv |-> 0, upto |-> 0])
            ELSE s
  IN IF ~pendingOf(s1) THEN clearTimer(s1) ELSE s1

\* onAbort that rejects its call but leaves its handlers in the lists
onAbort_keepsHandlers(s, c) ==
  LET idx == indexOf(s.pendingResolves, c)
      s1 == IF idx >= 1 THEN reject(s, c, "AbortError") ELSE s
  IN IF ~pendingOf(s1) THEN clearTimer(s1) ELSE s1

\* onAbort that cancels the cycle when it removed the last waiter
onAbort_cancelsWhenAlone(s, c) ==
  LET idx == indexOf(s.pendingResolves, c)
      s1 == IF idx >= 1
            THEN reject([s EXCEPT !.pendingResolves = splice(@, idx),
                                  !.pendingRejects = splice(@, idx)],
                        c, "AbortError")
            ELSE s
  IN IF s1.pendingResolves = <<>>
     THEN [clearTimer(s1) EXCEPT !.pendingArgs = null, !.pendingThis = null]
     ELSE s1

onAbort(s, c) ==
  LET idx == indexOf(s.pendingResolves, c)
      s1 == IF idx >= 1
            THEN reject([s EXCEPT !.pendingResolves = splice(@, idx),
                                  !.pendingRejects = splice(@, idx)],
                        c, "AbortError")
            ELSE s
  IN IF ~pendingOf(s1) THEN clearTimer(s1) ELSE s1

RECURSIVE RunListeners(_, _)
RunListeners(s, list) ==
  IF list = <<>> THEN s
  ELSE RunListeners(onAbort(s, Head(list)), Tail(list))

\* -------------------------------------------------------------- debounced
UsedSignals == (callSignals \cup {options.signal}) \ {NoSignal}

\* the promise executor: reject at once, or register the waiter and listener
register(s, c, signal, isAborted) ==
  IF isAborted
  THEN reject(s, c, "AbortError")
  ELSE LET s1 == [s EXCEPT !.pendingResolves = Append(@, c),
                           !.pendingRejects = Append(@, c)]
       IN IF signal # NoSignal
          THEN [s1 EXCEPT !.listeners[signal] = Append(@, c)]
          ELSE s1

\* debounced that restarts the cycle clock on every call
debounced_restartsCycle(a, callSignal, o1, o2) ==
  /\ UserTurn
  /\ Len(calls) < MaxCalls
  /\ now + wait <= MaxTime
  /\ LET c == Len(calls) + 1
         isFirstInCycle == pendingArgs = null /\ timerId = null
         newBurst == Len(calls) = 0 \/ now - lastCall.at >= wait
         newCycle == cycle.calls = 0 \/ cycle.ended
         s0 == [Cur EXCEPT !.ncalls = c,
                           !.sinceBurst = IF newBurst THEN NewRun(now)
                                          ELSE [@ EXCEPT !.calls = @ + 1],
                           !.cycle = IF newCycle THEN NewRun(now)
                                     ELSE [@ EXCEPT !.calls = @ + 1]]
         s1 == [s0 EXCEPT !.pendingArgs = a, !.pendingThis = ThisCtx]
         s2 == [s1 EXCEPT !.firstCallTime = now,
                          !.fixedDeadline = IF strategy = "fixedDeadline"
                                            THEN now + wait ELSE @]
         signal == IF callSignal # NoSignal THEN callSignal ELSE options.signal
         isAborted == signal \in aborted
         s3 == register(s2, c, signal, isAborted)
         lead == isFirstInCycle /\ leading
         s4 == IF lead THEN invoke(s3, now, "leading", o1) ELSE s3
         direct == lead /\ ~s4.thrown /\ ~trailing
         s5 == IF s4.thrown \/ direct \/ ~trailing
               THEN s4
               ELSE schedule(s4, now, o2)
         ret == IF s5.thrown THEN "threw" ELSE IF direct THEN "direct" ELSE "p"
     IN /\ Assign(s5)
        /\ calls' = Append(calls, [signal |-> signal, aborted |-> isAborted,
                                   first |-> isFirstInCycle, ret |-> ret,
                                   inv |-> IF lead THEN s4.out.inv ELSE 0])
        /\ lastCall' = [at |-> now, args |-> a]
  /\ UNCHANGED <<options, fn, callSignals, now, aborted, inTimerTask, flushResult>>

debounced(a, callSignal, o1, o2) ==
  /\ UserTurn
  /\ Len(calls) < MaxCalls
  /\ now + wait <= MaxTime
  /\ LET c == Len(calls) + 1
         isFirstInCycle == pendingArgs = null /\ timerId = null
         newBurst == Len(calls) = 0 \/ now - lastCall.at >= wait
         newCycle == cycle.calls = 0 \/ cycle.ended
         s0 == [Cur EXCEPT !.ncalls = c,
                           !.sinceBurst = IF newBurst THEN NewRun(now)
                                          ELSE [@ EXCEPT !.calls = @ + 1],
                           !.cycle = IF newCycle THEN NewRun(now)
                                     ELSE [@ EXCEPT !.calls = @ + 1]]
         s1 == [s0 EXCEPT !.pendingArgs = a, !.pendingThis = ThisCtx]
         s2 == IF isFirstInCycle
               THEN [s1 EXCEPT !.firstCallTime = now,
                               !.fixedDeadline = IF strategy = "fixedDeadline"
                                                 THEN now + wait ELSE @]
               ELSE s1
         signal == IF callSignal # NoSignal THEN callSignal ELSE options.signal
         isAborted == signal \in aborted
         s3 == register(s2, c, signal, isAborted)
         lead == isFirstInCycle /\ leading
         s4 == IF lead THEN invoke(s3, now, "leading", o1) ELSE s3
         direct == lead /\ ~s4.thrown /\ ~trailing
         s5 == IF s4.thrown \/ direct \/ ~trailing
               THEN s4
               ELSE schedule(s4, now, o2)
         ret == IF s5.thrown THEN "threw" ELSE IF direct THEN "direct" ELSE "p"
     IN /\ Assign(s5)
        /\ calls' = Append(calls, [signal |-> signal, aborted |-> isAborted,
                                   first |-> isFirstInCycle, ret |-> ret,
                                   inv |-> IF lead THEN s4.out.inv ELSE 0])
        /\ lastCall' = [at |-> now, args |-> a]
  /\ UNCHANGED <<options, fn, callSignals, now, aborted, inTimerTask, flushResult>>

\* ------------------------------------------------------- debounced.cancel
\* cancel that drops the cycle but does not reject the waiters
cancel_keepsWaiters ==
  /\ UserTurn
  /\ LET s1 == [clearTimer(Cur) EXCEPT !.pendingArgs = null, !.pendingThis = null]
         acted == pending \/ Len(pendingRejects) > 0
     IN Assign([s1 EXCEPT !.sinceBurst.canceled = @ \/ acted,
                          !.cycle.canceled = @ \/ acted,
                          !.cycle.ended = @ \/ acted])
  /\ UNCHANGED <<options, fn, callSignals, now, aborted, inTimerTask, calls, lastCall, flushResult>>

cancel ==
  /\ UserTurn
  /\ LET s1 == [clearTimer(Cur) EXCEPT !.pendingArgs = null, !.pendingThis = null]
         s2 == IF Len(s1.pendingRejects) > 0
               THEN settleAll(s1, FALSE, [why |-> "Debounce canceled", inv |-> 0, upto |-> 0])
               ELSE s1
         acted == pending \/ Len(pendingRejects) > 0
     IN Assign([s2 EXCEPT !.sinceBurst.canceled = @ \/ acted,
                          !.cycle.canceled = @ \/ acted,
                          !.cycle.ended = @ \/ acted])
  /\ UNCHANGED <<options, fn, callSignals, now, aborted, inTimerTask, calls, lastCall, flushResult>>

\* -------------------------------------------------------- debounced.flush
\* flush that invokes whether or not arguments are staged
flush_alwaysInvokes(o) ==
  /\ UserTurn
  /\ LET s1 == invoke(Cur, now, "flush", o)
     IN /\ Assign([s1 EXCEPT !.sinceBurst.flushed = TRUE,
                             !.cycle.flushed = TRUE])
        /\ flushResult' = s1.out
  /\ UNCHANGED <<options, fn, callSignals, now, aborted, inTimerTask, calls, lastCall>>

flush(o) ==
  /\ UserTurn
  /\ IF pendingArgs = null
     THEN /\ Assign(Cur)
          /\ flushResult' = [kind |-> "undefined", inv |-> 0]
     ELSE LET s1 == invoke(Cur, now, "flush", o)
          IN /\ Assign([s1 EXCEPT !.sinceBurst.flushed = TRUE,
                                  !.cycle.flushed = TRUE])
             /\ flushResult' = s1.out
  /\ UNCHANGED <<options, fn, callSignals, now, aborted, inTimerTask, calls, lastCall>>

\* ----------------------------------------------- the abort signal firing
AbortFire(sg) ==
  /\ UserTurn
  /\ sg \in UsedSignals
  /\ sg \notin aborted
  /\ aborted' = aborted \cup {sg}
  /\ Assign(RunListeners([Cur EXCEPT !.listeners[sg] = <<>>], listeners[sg]))
  /\ UNCHANGED <<options, fn, callSignals, now, inTimerTask, calls, lastCall, flushResult>>

\* ------------------------------------ the timer callback (schedule, 441)
TimerFire(o) ==
  /\ ~MicroPending
  /\ \E t \in hostTimers :
       /\ t.at <= now
       /\ LET s1 == invoke([Cur EXCEPT !.hostTimers = @ \ {t}], now, "timer", o)
          IN /\ Assign(s1)
             /\ inTimerTask' = (\E i \in 1..Len(s1.inflight) : s1.inflight[i].micro)
  /\ UNCHANGED <<options, fn, callSignals, now, aborted, calls, lastCall, flushResult>>

\* ------------------- the continuation of Promise.resolve(out) (invoke, 406)
Deliver(i, ok) ==
  /\ i \in 1..Len(inflight)
  /\ IF inflight[i].micro
     THEN ok /\ \A j \in 1..(i - 1) : ~inflight[j].micro
     ELSE ~MicroPending
  /\ LET s0 == [Cur EXCEPT !.inflight = splice(@, i)]
         s1 == settleAll(s0, ok, [why |-> IF ok THEN "value" ELSE "target",
                                  inv |-> inflight[i].inv, upto |-> inflight[i].upto])
     IN /\ Assign(s1)
        /\ inTimerTask' = (inTimerTask /\ \E j \in 1..Len(s1.inflight) : s1.inflight[j].micro)
  /\ UNCHANGED <<options, fn, callSignals, now, aborted, calls, lastCall, flushResult>>

\* ------------------------------------------------------- the clock advances
Tick ==
  /\ ~Due
  /\ ~MicroPending
  /\ now < MaxTime
  /\ now' = now + 1
  /\ UNCHANGED <<options, fn, callSignals, aborted, listeners, hostTimers, inflight, inTimerTask,
                 timerId, firstCallTime, lastInvokeTime, pendingArgs, pendingThis,
                 pendingResolves, pendingRejects, fixedDeadline,
                 calls, lastCall, ninvocations, lastInvoke, sinceBurst, cycle,
                 settlements, flushResult>>

MaxInflight == 2 * MaxCalls

Next ==
  \/ \E a \in Args, sg \in callSignals, o1 \in fn, o2 \in fn :
       debounced(a, sg, o1, o2)
  \/ cancel
  \/ \E o \in fn : flush(o)
  \/ \E sg \in Signals : AbortFire(sg)
  \/ \E o \in fn : TimerFire(o)
  \/ \E i \in 1..MaxInflight, ok \in BOOLEAN : Deliver(i, ok)
  \/ Tick

Spec == Init /\ [][Next]_vars

TypeOK ==
  /\ now \in 0..MaxTime
  /\ timerId \in Nat
  /\ Cardinality(hostTimers) <= 1
  /\ Len(inflight) <= MaxInflight

\* ------------------------------------------------------- specifications
\* One wrapper per behaviour; each specification fixes the options (and the
\* kind of target) its properties are about.
TrailingOnly(o) == ~o.leading /\ o.trailing /\ o.maxWait = Infinity /\ o.signal = "s0"

InitExtend ==
  InitWith({o \in AllOptions : TrailingOnly(o) /\ o.strategy = "extend" /\ o.wait >= 0},
           {{"value", "throw"}}, {{NoSignal}})
SpecExtend == InitExtend /\ [][Next]_vars

\* C1: under extend, trailing only, no maxWait, a burst of calls spaced closer
\* than wait is invoked exactly once, wait after its last call, with the
\* arguments of that call (and not before).
C1Config == strategy = "extend" /\ trailing /\ ~leading /\ ~hasMaxWait
C1_ExtendInvokesOnceAfterLastCall ==
  (C1Config /\ sinceBurst.calls > 0 /\ ~sinceBurst.flushed /\ ~sinceBurst.canceled /\ ~Due)
    => IF now >= lastCall.at + wait
       THEN /\ sinceBurst.invoked = 1
            /\ lastInvokeTime = lastCall.at + wait
            /\ lastInvoke.args = lastCall.args
            /\ lastInvoke.upto = Len(calls)
       ELSE /\ sinceBurst.invoked = 0
            /\ \E t \in hostTimers : t.at = lastCall.at + wait

C1_Witness ==
  /\ C1Config /\ wait > 0
  /\ sinceBurst.calls >= 2 /\ ~sinceBurst.flushed /\ ~sinceBurst.canceled
  /\ sinceBurst.invoked = 1
  /\ now = lastCall.at + wait
  /\ lastInvoke.args = lastCall.args

InitFixed ==
  InitWith({o \in AllOptions : TrailingOnly(o) /\ o.strategy = "fixedDeadline" /\ o.wait >= 0},
           {{"value", "throw"}}, {{NoSignal}})
SpecFixed == InitFixed /\ [][Next]_vars

\* C2: under fixedDeadline, trailing only, no maxWait, a cycle whose first call
\* is at t0 is invoked exactly once, at t0 + wait, with the arguments of the
\* latest call; calls made before t0 + wait do not move the timer.
C2Config == strategy = "fixedDeadline" /\ trailing /\ ~leading /\ ~hasMaxWait
C2_FixedDeadlineInvokesOnceAtFirstDeadline ==
  (C2Config /\ cycle.calls > 0 /\ ~cycle.flushed /\ ~cycle.canceled /\ ~Due)
    => IF now >= cycle.start + wait
       THEN /\ cycle.invoked = 1
            /\ cycle.ended
            /\ lastInvokeTime = cycle.start + wait
            /\ lastInvoke.args = lastCall.args
            /\ lastInvoke.upto = Len(calls)
       ELSE /\ cycle.invoked = 0
            /\ \E t \in hostTimers : hostTimers = {t} /\ t.at = cycle.start + wait

C2_Witness ==
  /\ C2Config
  /\ cycle.calls >= 2 /\ ~cycle.flushed /\ ~cycle.canceled
  /\ cycle.start < lastCall.at /\ lastCall.at < cycle.start + wait
  /\ cycle.invoked = 1
  /\ lastInvokeTime = cycle.start + wait
  /\ lastInvoke.args = lastCall.args

InitMaxWait ==
  InitWith({o \in AllOptions : /\ ~o.leading /\ o.trailing /\ o.signal = "s0"
                               /\ o.wait = 2 /\ o.maxWait \in {1, 2}},
           {{"value"}}, {{NoSignal}})
SpecMaxWait == InitMaxWait /\ [][Next]_vars

\* C3: with a finite maxWait and trailing enabled, a cycle that is not
\* canceled is invoked no later than maxWait after its first call: no timer is
\* ever armed beyond that instant and once it has passed an invocation was made.
C3Config == hasMaxWait /\ trailing
C3_MaxWaitBoundsTheCycle ==
  (C3Config /\ cycle.calls > 0 /\ ~cycle.canceled)
    => /\ \A t \in hostTimers : t.at <= cycle.start + maxWait
       /\ (~Due /\ now >= cycle.start + maxWait) => cycle.invoked >= 1

C3_Witness ==
  /\ C3Config /\ strategy = "extend"
  /\ cycle.calls >= 2 /\ ~cycle.canceled /\ ~cycle.flushed
  /\ cycle.invoked = 1
  /\ lastInvoke.via = "timer"
  /\ lastInvokeTime = cycle.start + maxWait
  /\ lastInvokeTime < lastCall.at + wait

InitLeading ==
  InitWith({o \in AllOptions : /\ o.leading /\ o.signal = "s0" /\ o.strategy = "extend"
                               /\ o.wait = 2 /\ o.maxWait = Infinity},
           {{"value", "throw"}}, {{NoSignal}})
SpecLeading == InitLeading /\ [][Next]_vars

\* C4: with leading = true and trailing = false, a burst of calls (each within
\* wait of the preceding one) invokes the target once, at its first call and
\* with that call's arguments; the later calls of the burst do not invoke.
C4Config == leading /\ ~trailing
C4_LeadingOnlyInvokesOncePerBurst ==
  (C4Config /\ sinceBurst.calls > 0)
    => /\ sinceBurst.invoked = 1
       /\ lastInvoke.via = "leading"
       /\ lastInvokeTime = sinceBurst.start
       /\ lastInvoke.upto = Len(calls) - sinceBurst.calls + 1
       /\ (sinceBurst.calls = 1 => lastInvoke.args = lastCall.args)

\* ------------------------------------------------- waiters and their promises
CycleCalls == (Len(calls) - cycle.calls + 1)..Len(calls)
Registered(list, c) == \E i \in 1..Len(list) : list[i] = c
CanceledFailure == [kind |-> "reject", why |-> "Debounce canceled", inv |-> 0, upto |-> 0]
AbortFailure == [kind |-> "reject", why |-> "AbortError", inv |-> 0, upto |-> 0]

InitCancel ==
  InitWith({o \in AllOptions : /\ o.trailing /\ o.signal = NoSignal /\ o.strategy = "extend"
                               /\ o.wait = 2 /\ o.maxWait = Infinity},
           {{"value"}}, {{NoSignal, "s1"}})
SpecCancel == InitCancel /\ [][Next]_vars

CancelOfOpenCycle == cancel /\ cycle.calls > 0 /\ ~cycle.ended /\ hostTimers # {}

\* C5 (as stated): cancel() before the timer fires rejects the promise of every
\* call of the cycle with the cancellation failure, invokes nothing and leaves
\* pending() false.
C5_CancelRejectsEveryCallOfTheCycle ==
  [][ CancelOfOpenCycle
        => /\ \A c \in CycleCalls :
                settlements'[c] # <<>> /\ settlements'[c][1] = CanceledFailure
           /\ ~pending'
           /\ ninvocations' = ninvocations ]_vars

\* C5 (amended): cancel() before the timer fires rejects with the cancellation
\* failure every call of the cycle whose promise is still unsettled, leaves the
\* already settled ones as they are, clears the timer, leaves pending() false,
\* and the target is not invoked until a new call is made.
C5_CancelRejectsOutstandingWaiters ==
  /\ [][ CancelOfOpenCycle
           => /\ \A c \in CycleCalls :
                   IF settlements[c] = <<>>
                   THEN settlements'[c] = <<CanceledFailure>>
                   ELSE settlements'[c] = settlements[c]
              /\ ~pending'
              /\ hostTimers' = {}
              /\ ninvocations' = ninvocations ]_vars
  /\ [][ (cycle.canceled /\ Len(calls') = Len(calls))
           => ninvocations' = ninvocations ]_vars

C5_Witness ==
  /\ cycle.canceled /\ cycle.calls >= 2 /\ ninvocations = 0
  /\ \E c1 \in CycleCalls, c2 \in CycleCalls :
       /\ settlements[c1] = <<CanceledFailure>>
       /\ settlements[c2] = <<AbortFailure>>
  /\ ~pending

\* C6: flush() with pending() true invokes the target at once, exactly once,
\* with the pending arguments, returns that invocation's result and leaves no
\* cycle open; with pending() false it returns undefined and changes nothing.
C6_FlushInvokesWheneverPending ==
  [][ (\E o \in fn : flush(o))
        => IF pending
           THEN /\ ninvocations' = ninvocations + 1
                /\ lastInvoke'.via = "flush"
                /\ pendingArgs # null /\ lastInvoke'.args = pendingArgs
                /\ flushResult'.inv = ninvocations'
                /\ ~pending'
                /\ hostTimers' = {}
           ELSE /\ flushResult'.kind = "undefined"
                /\ UNCHANGED <<hostTimers, inflight, timerId, firstCallTime, lastInvokeTime,
                               pendingArgs, pendingThis, pendingResolves, pendingRejects,
                               fixedDeadline, ninvocations, settlements>> ]_vars

InitAbort ==
  InitWith({o \in AllOptions : /\ ~o.leading /\ o.trailing /\ o.signal = NoSignal
                               /\ o.strategy = "extend" /\ o.wait = 2 /\ o.maxWait = Infinity},
           {{"value"}}, {{NoSignal, "s1"}})
SpecAbort == InitAbort /\ [][Next]_vars

\* C7: when a call's abort signal fires, exactly the outstanding calls bound to
\* that signal are rejected with the abort failure; every other call keeps its
\* promise and its waiter, and a waiter still registered is resolved with the
\* target's result when that result is delivered.
C7_AbortRejectsOnlyItsOwnCall ==
  /\ [][ \A sg \in Signals : AbortFire(sg)
           => \A c \in 1..Len(calls) :
                IF calls[c].signal = sg /\ settlements[c] = <<>>
                THEN /\ settlements'[c] = <<AbortFailure>>
                     /\ ~Registered(pendingResolves', c)
                     /\ ~Registered(pendingRejects', c)
                ELSE /\ settlements'[c] = settlements[c]
                     /\ Registered(pendingResolves, c) => Registered(pendingResolves', c)
                     /\ Registered(pendingRejects, c) => Registered(pendingRejects', c) ]_vars
  /\ [][ \A i \in 1..Len(inflight) : Deliver(i, TRUE)
           => \A c \in 1..Len(calls) :
                Registered(pendingResolves, c)
                  => settlements'[c] = <<[kind |-> "resolve", why |-> "value",
                                          inv |-> inflight[i].inv,
                                          upto |-> inflight[i].upto]>> ]_vars

C7_Witness ==
  /\ Len(calls) = 2 /\ cycle.calls = 2
  /\ ~calls[1].aborted /\ calls[1].signal = "s1"
  /\ settlements[1] = <<AbortFailure>>
  /\ lastInvoke.via = "timer"
  /\ settlements[2] = <<[kind |-> "resolve", why |-> "value", inv |-> 1, upto |-> 2]>>

InitEdges ==
  InitWith({o \in AllOptions : /\ o.signal = "s0" /\ o.strategy = "extend"
                               /\ o.wait = 1 /\ o.maxWait = Infinity},
           {{"value", "throw"}}, {{NoSignal}})
SpecEdges == InitEdges /\ [][Next]_vars

\* C8: no waiter is ever settled more than once, whatever the interleaving of
\* calls, timer firings, flush(), cancel(), abort signals and target results.
C8_NoWaiterSettledTwice ==
  \A c \in 1..MaxCalls : Len(settlements[c]) <= 1

C8_Witness ==
  /\ Len(calls) >= 1 /\ ~calls[1].aborted
  /\ settlements[1] = <<AbortFailure>>
  /\ ninvocations >= 1 /\ lastInvoke.upto >= 1
  /\ inflight = <<>>
  /\ ~pending

\* the promise a call returned has been settled (a call that raised returned none)
PromiseSettled(c) ==
  CASE calls[c].ret = "threw" -> TRUE
    [] calls[c].ret = "direct" ->
         ~\E i \in 1..Len(inflight) : inflight[i].inv = calls[c].inv /\ ~inflight[i].micro
    [] OTHER -> settlements[c] # <<>>

\* C9: every call's promise is eventually settled without flush() or cancel():
\* once no timer is armed and no target result is outstanding (nothing further
\* can happen by itself), no call's promise is still unsettled.
C9_EveryPromiseSettledWhenQuiet ==
  (hostTimers = {} /\ inflight = <<>>)
    => \A c \in 1..Len(calls) : PromiseSettled(c)

\* C10: a call made with an already fired signal is rejected at once and never
\* enters a cycle: no waiter, no change of the pending arguments, of the cycle
\* start or of the timer, and no invocation.
C10_AbortedCallNeverEntersCycle ==
  [][ (Len(calls') = Len(calls) + 1 /\ calls'[Len(calls')].aborted)
        => /\ settlements'[Len(calls')] = <<AbortFailure>>
           /\ UNCHANGED <<pendingResolves, pendingRejects, pendingArgs, pendingThis,
                          firstCallTime, fixedDeadline, timerId, hostTimers,
                          ninvocations>> ]_vars

\* ------------------------------------------------ arguments of an invocation
\* C11: every invocation of the target (leading, timer-driven, synchronous or
\* by flush()) is made with the arguments of the most recent call received
\* before it, never with no staged arguments.
C11_InvokedWithLatestArguments ==
  [][ ninvocations' > ninvocations
        => /\ lastInvoke'.args # null
           /\ lastInvoke'.args = lastCall'.args ]_vars

\* C12: cancel() called while pending() is false is a no-op: it changes no
\* state of the wrapper and settles no waiter, so the waiters of an invocation
\* whose result is not delivered yet still receive that result; and a second
\* cancel() right after a first one finds nothing left to do.
C12_CancelWithoutCycleIsNoOp ==
  [][ /\ (cancel /\ ~pending)
           => UNCHANGED <<hostTimers, timerId, pendingArgs, pendingThis, pendingResolves,
                          pendingRejects, firstCallTime, lastInvokeTime, fixedDeadline,
                          inflight, ninvocations, settlements>>
      /\ cancel => (~pending' /\ pendingResolves' = <<>> /\ pendingRejects' = <<>>) ]_vars

\* ------------------------------------------------- failure of the target
InitFailure ==
  InitWith({o \in AllOptions : TrailingOnly(o) /\ o.strategy = "extend" /\ o.wait \in {0, 1}},
           {{"throw", "promise"}}, {{NoSignal}})
SpecFailure == InitFailure /\ [][Next]_vars

WaitersOf(list) == {list[k] : k \in 1..Len(list)}
TargetFailure(n, u) == [kind |-> "reject", why |-> "target", inv |-> n, upto |-> u]
\* the step invoked the target and the target raised synchronously
SyncFailure == ninvocations' = ninvocations + 1 /\ Len(inflight') = Len(inflight)
\* the waiter the step's own call registered, if the step is a call
NewWaiter ==
  IF Len(calls') > Len(calls) /\ ~calls'[Len(calls')].aborted
  THEN {Len(calls')} ELSE {}

\* C13: when an invocation fails, every waiter of its cycle (registered when
\* the invocation began, and not rejected by its own abort signal since) is
\* rejected with that failure, whether the target raised synchronously or the
\* promise it returned failed; a synchronous failure under flush() is also
\* raised to the caller of flush().
C13_TargetFailureRejectsItsCycle ==
  [][ /\ \A i \in 1..Len(inflight) :
           Deliver(i, FALSE)
             => \A c \in WaitersOf(inflight[i].waiters) :
                  calls[c].signal \notin aborted
                    => settlements'[c] = <<TargetFailure(inflight[i].inv, inflight[i].upto)>>
      /\ SyncFailure
           => /\ \A c \in WaitersOf(pendingRejects) \cup NewWaiter :
                   settlements'[c] = <<TargetFailure(ninvocations', Len(calls'))>>
              /\ (\E o \in fn : flush(o)) => flushResult'.kind = "threw" ]_vars

\* ------------------------------------------------ abort and the open cycle
\* the cycle is open, not yet invoked, and its only call was rejected by its
\* abort signal after it had been registered
OnlyCallAborted ==
  /\ cycle.calls = 1 /\ ~cycle.ended /\ cycle.invoked = 0
  /\ ~calls[Len(calls)].aborted
  /\ settlements[Len(calls)] = <<AbortFailure>>

\* C14: when the abort signal of the only call of an open cycle fires, the
\* pending invocation is canceled: the timer is cleared and, until a new call
\* is made (and without flush()), the target is not invoked for that cycle.
C14_AbortOfOnlyCallCancelsInvocation ==
  [][ /\ (~OnlyCallAborted /\ OnlyCallAborted') => (hostTimers' = {} /\ ~pending')
      /\ (OnlyCallAborted /\ Len(calls') = Len(calls) /\ ~cycle'.flushed)
           => ninvocations' = ninvocations ]_vars

\* ------------------------------------------- whom an invocation settles
\* C15: an invocation's outcome settles only waiters registered when that
\* invocation began: no call made after the invocation started (upto counts
\* the calls made by then) is ever settled with that invocation's outcome.
C15_InvocationSettlesOnlyItsSnapshot ==
  \A c \in 1..Len(calls) :
    \A k \in 1..Len(settlements[c]) :
      settlements[c][k].inv # 0 => c <= settlements[c][k].upto

\* C16: with leading enabled, the outcome of a leading invocation (calls[d].inv
\* is the invocation call d made on the leading edge) settles the waiter of
\* call d only, and that waiter is not settled a second time by the trailing
\* invocation.
C16_LeadingResultSettlesOnlyItsCall ==
  \A d \in 1..Len(calls) :
    (leading /\ calls[d].inv # 0)
      => /\ Len(settlements[d]) <= 1
         /\ \A c \in 1..Len(calls) :
              \A k \in 1..Len(settlements[c]) :
                settlements[c][k].inv = calls[d].inv => c = d

\* ------------------------------------------------------- the single timer
\* C17: at most one timer is armed at any time, and it is the one the wrapper
\* holds the handle of: re-arming, invoking and canceling leave no older timer
\* behind, so a superseded timer can never fire.
C17_AtMostOneTimerArmed ==
  /\ Cardinality(hostTimers) <= 1
  /\ \A t \in hostTimers : t.id = timerId
  /\ (timerId = null) => hostTimers = {}

C17_Witness ==
  /\ wait > 0
  /\ cycle.calls >= 2 /\ ~cycle.ended
  /\ lastCall.at > cycle.start
  /\ hostTimers = {[id |-> timerId, at |-> lastCall.at + wait]}

\* ------------------------------------------------ staged arguments and cycle
\* C18: between operations the pending arguments are staged exactly when a
\* cycle is open, that is when the trailing timer is armed (after a leading
\* invocation the trailing one is owed for as long as that timer is armed);
\* in particular no timer is armed while nothing is staged.
C18_ArgsStagedIffCycleOpen ==
  (pendingArgs # null) <=> (timerId # null /\ hostTimers # {})

\* -------------------------------------------------- the frozen deadline
\* C19: under fixedDeadline the cycle start time and the frozen deadline are
\* written only by the call that starts a cycle (to now and now + wait); a
\* later call of the same cycle, an abort signal firing, and every other step
\* leave both unchanged.
C19_DeadlineWrittenOnlyAtCycleStart ==
  [][ strategy = "fixedDeadline"
        => /\ (firstCallTime' # firstCallTime \/ fixedDeadline' # fixedDeadline)
                => (Len(calls') = Len(calls) + 1 /\ cycle'.calls = 1)
           /\ (Len(calls') = Len(calls) + 1 /\ cycle'.calls = 1)
                => (firstCallTime' = now /\ fixedDeadline' = now + wait)
           /\ (\E sg \in Signals : AbortFire(sg))
                => UNCHANGED <<firstCallTime, fixedDeadline>> ]_vars

C19_Witness ==
  /\ strategy = "fixedDeadline"
  /\ cycle.calls >= 2 /\ ~cycle.ended
  /\ lastCall.at > cycle.start
  /\ "s0" \in aborted
  /\ firstCallTime = cycle.start
  /\ fixedDeadline = cycle.start + wait
  /\ hostTimers = {[id |-> timerId, at |-> fixedDeadline]}

C21Config == leading /\ trailing
C21_SingleCallInvokesTwice ==
  (C21Config /\ cycle.calls = 1 /\ ~cycle.canceled /\ ~Due)
    => LET end == cycle.start + Min(wait, maxWait)
       IN IF now >= end
          THEN cycle.invoked = 2 /\ lastInvokeTime = end
          ELSE /\ cycle.invoked = 1 /\ lastInvokeTime = cycle.start
               /\ hostTimers = {[id |-> timerId, at |-> end]}

\* ------------------------------------------------- the synchronous trailing edge
InitSync ==
  InitWith({o \in AllOptions : /\ ~o.leading /\ o.trailing /\ o.signal = "s0"
                               /\ o.wait \in {-1, 0, 1} /\ o.maxWait \in {Infinity, 0}},
           {{"value", "throw"}}, {{NoSignal}})
SpecSync == InitSync /\ [][Next]_vars

\* the step is a call that reached schedule (a leading invocation that raised
\* leaves the call before it)
ScheduledCall ==
  /\ Len(calls') = Len(calls) + 1
  /\ trailing
  /\ ~(calls'[Len(calls')].ret = "threw" /\ lastInvoke'.via = "leading")

\* the delay schedule computes in that call
ComputedDelay ==
  Min(IF strategy = "extend" THEN wait ELSE Max(0, fixedDeadline' - now),
      IF hasMaxWait THEN Max(0, maxWait - (now - firstCallTime')) ELSE Infinity)

\* C22: with trailing enabled, a call whose computed delay is zero or negative
\* invokes the target synchronously inside the call and leaves no timer armed;
\* with a positive delay the call arms the timer for now + delay instead.
C22_NoDelayInvokesSynchronously ==
  [][ ScheduledCall
        => IF ComputedDelay <= 0
           THEN /\ ninvocations' > ninvocations
                /\ lastInvoke'.via = "sync"
                /\ lastInvokeTime' = now
                /\ lastInvoke'.upto = Len(calls')
                /\ hostTimers' = {} /\ timerId' = null
           ELSE hostTimers' = {[id |-> timerId', at |-> now + ComputedDelay]} ]_vars

C22_Witness ==
  /\ trailing /\ ~leading /\ options.wait > 0 /\ maxWait = 0
  /\ Len(calls) = 2
  /\ ninvocations = 2
  /\ lastInvoke.via = "sync" /\ lastInvoke.upto = 2
  /\ lastInvokeTime = lastCall.at
  /\ hostTimers = {} /\ timerId = null

\* ---------------------------------------------------------- coalescing bound
\* C23: with leading = false the target is never invoked more often than the
\* wrapper was called, and every invocation (one per step) is preceded by at
\* least one call made since the previous invocation began.
C23_InvocationsBoundedByCalls ==
  /\ [](~leading => ninvocations <= Len(calls))
  /\ [][ (~leading /\ ninvocations' > ninvocations)
           => /\ ninvocations' = ninvocations + 1
              /\ Len(calls') > lastInvoke.upto ]_vars

C23_Witness ==
  /\ ~leading
  /\ Len(calls) = 2 /\ cycle.calls = 1
  /\ ninvocations = 2
  /\ lastInvoke.via = "flush" /\ lastInvoke.upto = 2

\* ------------------------------------------------- what a call returns
\* C24: a call of the wrapper always returns a promise: it never raises to its
\* caller, also when the target fails synchronously on the leading edge or on
\* a zero-delay trailing invocation made inside the call.
C24_CallNeverRaises ==
  \A c \in 1..Len(calls) : calls[c].ret # "threw"

====
